---- MODULE Spec2Model ----
(***************************************************************************)
(* The Spark ETL of src/src/etl.py: SparkETL.process_song_data,            *)
(* SparkETL.process_log_data and SparkETL.create_songplays_table, run in   *)
(* that order by main(), each writing its tables to parquet paths under    *)
(* self.dst with mode="overwrite".                                         *)
(*                                                                         *)
(* A DataFrame is a multiset of rows (a bag); only users_table, which the  *)
(* code orders with orderBy, is a sequence.  A string column holds a       *)
(* string or NULL; the ts column (LongType) holds <<t>> or <<>> for null.  *)
(* Only the columns the three methods read are kept in the input rows.     *)
(***************************************************************************)
EXTENDS Integers, Sequences, FiniteSets, Bags, TLC

MaxCatalog == 2      \* most rows of the song data of one input
MaxActivity == 2     \* most rows of the log data of one input
MaxRuns == 2         \* most invocations of main() in one behaviour

VARIABLES
    df_song_data,    \* the rows load_song_data() returns (the same on every run)
    df_log_data,     \* the rows load_log_data() returns (the same on every run)
    tz,              \* UTC offset, in seconds, of the local time zone of the environment
    pc,              \* the write main() is about to issue, or "done" / "failed"
    run,             \* the number of the current invocation of main()
    error,           \* the exception that left main(), or "none"
    sink,            \* path -> what is stored there
    calls,           \* the parquet writes issued so far by the current invocation
    prev             \* the sink as the previous invocation of main() left it

vars == <<df_song_data, df_log_data, tz, pc, run, error, sink, calls, prev>>

NULL == "NULL"
NoTs == <<>>

(***************************************************************************)
(* Generic helpers.                                                        *)
(***************************************************************************)
Range(s) == {s[i] : i \in DOMAIN s}

SeqUpTo(S, n) == UNION {[1..k -> S] : k \in 0..n}

BagOfSeq(s) == [x \in Range(s) |-> Cardinality({i \in DOMAIN s : s[i] = x})]

\* Spark's = on nullable columns: never true when a side is null
SqlEq(a, b) == a # NULL /\ b # NULL /\ a = b

(***************************************************************************)
(* The inputs: the rows the two readers return.                            *)
(***************************************************************************)
SongDataRow(song_id, title, artist_id, artist_name) ==
    [song_id |-> song_id, title |-> title, artist_id |-> artist_id,
     artist_name |-> artist_name, artist_location |-> "LA",
     artist_latitude |-> NULL, artist_longitude |-> NULL,
     year |-> 2000, duration |-> 200]

LogDataRow(artist, page, userId, level, ts) ==
    [artist |-> artist, page |-> page, userId |-> userId, level |-> level,
     ts |-> ts, firstName |-> "F", lastName |-> "L", gender |-> "M",
     sessionId |-> 7, location |-> "SF", userAgent |-> "UA"]

\* catalogs for the song and artist tables: repeated song_id with another title,
\* a null song_id, repeated artist_id with another name
CatalogRows ==
    {SongDataRow(s, t, a[1], a[2]) :
        s \in {"S1", "S2", NULL}, t \in {"T", "U"},
        a \in {<<"A1", "X">>, <<"A1", NULL>>, <<"A2", "X">>}}

\* the end-to-end scenario of the documentation: one play, one page view
BaseLog ==
    <<LogDataRow("X", "NextSong", "U1", "free", <<1000>>),
      LogDataRow(NULL, "Home", "U1", "free", <<2000>>)>>

BaseCatalog == <<SongDataRow("S1", "T", "A1", "X")>>

\* logs for the users table: user ids whose string order is not their numeric
\* order, a null user id, ts in the same and in different seconds, a null ts,
\* and two rows that tie on (userId, ts) and differ in level
UserRows ==
    {LogDataRow(NULL, "Home", u, "free", t) :
        u \in {"10", "9", NULL}, t \in {<<1000>>, <<1500>>, NoTs}}
    \cup {LogDataRow(NULL, "Home", "9", "paid", <<1500>>)}

\* logs for the time table: ts around second, hour, day and year boundaries
TsValues ==
    {0, 1, 999, 1000, 1499, 1500, 1999, 2000, 3599999, 3600000, 17999999,
     18000000}

TimeRows ==
    {LogDataRow(NULL, "Home", "9", "free", <<t>>) : t \in TsValues}

TzOffsets == {-18000, 0, 3600}

\* inputs for the join: artist names equal, equal up to case, null on either side
JoinCatalogRows ==
    {SongDataRow("S1", "T", "A1", "X"), SongDataRow("S2", "U", "A1", "X"),
     SongDataRow("S3", "T", "A2", NULL)}

JoinLogRows ==
    {LogDataRow(a, p, "9", "free", <<1000>>) :
        a \in {"X", "x", NULL}, p \in {"NextSong", "Login"}}
    \cup {LogDataRow("X", NULL, "9", "free", <<1000>>),
          LogDataRow("X", "NextSong", "9", "free", NoTs)}

\* inputs for repeated runs
RerunCatalogRows ==
    {SongDataRow("S1", "T", "A1", "X"), SongDataRow("S1", "U", "A1", "X")}

RerunLogRows ==
    {LogDataRow("X", "NextSong", "9", "free", <<1500>>),
     LogDataRow("X", "NextSong", "9", "paid", <<1500>>),
     LogDataRow(NULL, "Home", "10", "free", NoTs)}

(***************************************************************************)
(* process_song_data: the songs and the artists table.                     *)
(***************************************************************************)
select_song(r) ==
    [song_id |-> r.song_id, title |-> r.title, artist_id |-> r.artist_id,
     year |-> r.year, duration |-> r.duration]

\* distinct() in the place of dropDuplicates(['song_id'])
distinct_song(rows) == {SetToBag(Range(rows))}

\* dropDuplicates(["song_id"]): one row of every group of rows with the same
\* song_id (nulls form one group); Spark does not determine which one, so
\* this is the set of the tables it may produce
dropDuplicates_song_id(rows) ==
    LET keys == {rows[i].song_id : i \in DOMAIN rows}
        group(k) == {i \in DOMAIN rows : rows[i].song_id = k}
        picks == {f \in [keys -> DOMAIN rows] : \A k \in keys : f[k] \in group(k)}
    IN  {SetToBag({rows[f[k]] : k \in keys}) : f \in picks}

songs_table ==
    dropDuplicates_song_id([i \in DOMAIN df_song_data |-> select_song(df_song_data[i])])

select_artist(r) ==
    [artist_id |-> r.artist_id, name |-> r.artist_name,
     location |-> r.artist_location, latitude |-> r.artist_latitude,
     longitude |-> r.artist_longitude]

\* dropDuplicates(['artist_id']) in the place of distinct(): the first row of
\* every artist_id
dropDuplicates_artist_id(rows) ==
    LET keys == {rows[i].artist_id : i \in DOMAIN rows}
        first(k) == CHOOSE i \in DOMAIN rows :
                        /\ rows[i].artist_id = k
                        /\ \A j \in DOMAIN rows : rows[j].artist_id = k => i <= j
    IN  SetToBag({rows[first(k)] : k \in keys})

\* distinct(): rows equal in every column collapse into one
distinct(rows) == SetToBag(Range(rows))

artists_table ==
    distinct([i \in DOMAIN df_song_data |-> select_artist(df_song_data[i])])

(***************************************************************************)
(* process_log_data: the users table.                                      *)
(***************************************************************************)
select_user(r) ==
    [user_id |-> r.userId, first_name |-> r.firstName, last_name |-> r.lastName,
     gender |-> r.gender, level |-> r.level, ts |-> r.ts]

\* the user ids of the inputs in Spark's ascending string order (byte-wise,
\* nulls first)
StringOrder == <<NULL, "10", "9", "U1">>

Rank(s) == CHOOSE i \in DOMAIN StringOrder : StringOrder[i] = s

\* col('ts') ascending in the place of descending: a smaller ts first, nulls first
ts_asc(x, y) == x = NoTs \/ (y # NoTs /\ x[1] <= y[1])

\* col("ts").desc(): a larger ts first, nulls last
ts_desc(x, y) == y = NoTs \/ (x # NoTs /\ x[1] >= y[1])

\* row a may stand before row b under orderBy(col("user_id"), col("ts").desc())
user_order(a, b) ==
    \/ Rank(a.user_id) < Rank(b.user_id)
    \/ a.user_id = b.user_id /\ ts_desc(a.ts, b.ts)

\* orderBy: every arrangement of the rows that respects the order; rows that
\* tie on both sort columns may come out either way
orderBy_user(rows) ==
    LET n == Len(rows)
        arrangements == {[i \in 1..n |-> rows[p[i]]] : p \in Permutations(1..n)}
    IN  {s \in arrangements :
            \A i \in 1..n, j \in 1..n : i < j => user_order(s[i], s[j])}

users_table ==
    orderBy_user([i \in DOMAIN df_log_data |-> select_user(df_log_data[i])])

(***************************************************************************)
(* process_log_data: parse_timestamp and the time table.                   *)
(*                                                                         *)
(* A datetime is [sec, microsecond]: the seconds of the naive local        *)
(* date-time counted from 1970-01-01 00:00:00 local, and its microsecond   *)
(* field.                                                                  *)
(***************************************************************************)
\* rounding to the nearest second in place of the float division and truncation
rounded_div_1000(ts) == [whole |-> (ts + 500) \div 1000, frac_us |-> 0]

\* ts / 1000 for an integer ts: the float's whole seconds and its fraction in
\* microseconds (a multiple of a millisecond is exact to the microsecond)
true_div_1000(ts) == [whole |-> ts \div 1000, frac_us |-> (ts % 1000) * 1000]

\* datetime.fromtimestamp(x): the local date-time of the instant x
fromtimestamp(x) == [sec |-> x.whole + tz, microsecond |-> x.frac_us]

\* datetime.replace(microsecond=0)
replace_microsecond_0(dt) == [dt EXCEPT !.microsecond = 0]

\* parse_timestamp of process_log_data; the argument is a non-null ts (the
\* UDF raises TypeError on None, see write_time_table)
parse_timestamp(ts) == replace_microsecond_0(fromtimestamp(true_div_1000(ts)))

\* days from 1970-01-01 to January 1st of year y
days_to_year(y) ==
    LET p == y - 1
        era == p \div 400
        yoe == p - era * 400
    IN  era * 146097 + yoe * 365 + yoe \div 4 - yoe \div 100 + 306 - 719468

\* the civil date of day z counted from 1970-01-01
civil(z) ==
    LET s == z + 719468
        era == s \div 146097
        doe == s - era * 146097
        yoe == (doe - doe \div 1460 + doe \div 36524 - doe \div 146096) \div 365
        doy == doe - (365 * yoe + yoe \div 4 - yoe \div 100)
        mp == (5 * doy + 2) \div 153
        m == IF mp < 10 THEN mp + 3 ELSE mp - 9
    IN  [year |-> yoe + era * 400 + (IF m <= 2 THEN 1 ELSE 0),
         month |-> m,
         day |-> doy - (153 * mp + 2) \div 5 + 1]

year(dt) == civil(dt.sec \div 86400).year
month(dt) == civil(dt.sec \div 86400).month
dayofmonth(dt) == civil(dt.sec \div 86400).day
hour(dt) == (dt.sec % 86400) \div 3600

is_leap(y) == y % 4 = 0 /\ (y % 100 # 0 \/ y % 400 = 0)

\* Monday = 1 .. Sunday = 7; 1970-01-01 was a Thursday
weekday(z) == ((z + 3) % 7) + 1

\* the ISO weeks of year y: 53 when January 1st is a Thursday, or a Wednesday
\* in a leap year
weeks_in_year(y) ==
    LET w == weekday(days_to_year(y))
    IN  IF w = 4 \/ (w = 3 /\ is_leap(y)) THEN 53 ELSE 52

\* weekofyear: the ISO 8601 week number
weekofyear(dt) ==
    LET z == dt.sec \div 86400
        y == civil(z).year
        w == (z - days_to_year(y) + 1 - weekday(z) + 10) \div 7
    IN  IF w < 1 THEN weeks_in_year(y - 1)
        ELSE IF w > weeks_in_year(y) THEN 1
        ELSE w

time_row(start_time) ==
    [start_time |-> start_time, week |-> weekofyear(start_time),
     hour |-> hour(start_time), day |-> dayofmonth(start_time),
     month |-> month(start_time), year |-> year(start_time)]

\* the UDF is evaluated on every row of the log data: a null ts is None in
\* Python, and None / 1000 raises TypeError
time_table_raises == \E i \in DOMAIN df_log_data : df_log_data[i].ts = NoTs

time_table ==
    BagOfSeq([i \in DOMAIN df_log_data |->
                 time_row(parse_timestamp(df_log_data[i].ts[1]))])

(***************************************************************************)
(* create_songplays_table.                                                 *)
(***************************************************************************)
\* parse_timestamp of create_songplays_table
songplays_parse_timestamp(ts) ==
    replace_microsecond_0(fromtimestamp(true_div_1000(ts)))

\* a case-insensitive comparison of the two artist names of the inputs
lower(s) == IF s = "X" THEN "x" ELSE s
join_on_lower(song, log) == SqlEq(lower(song.artist_name), lower(log.artist))

\* df_song_data.artist_name == df_log_data.artist
join_on(song, log) == SqlEq(song.artist_name, log.artist)

\* the inner join: the pairs <<j, i>> of a song row and a log row that match
joined ==
    {p \in (DOMAIN df_song_data) \X (DOMAIN df_log_data) :
        join_on(df_song_data[p[1]], df_log_data[p[2]])}

\* withColumn('start_time', ...): the select that follows drops the column, so
\* Spark never evaluates the UDF; <<>> stands for the unevaluated column of a
\* row with a null ts
with_start_time(p) ==
    LET log == df_log_data[p[2]]
    IN  [song |-> df_song_data[p[1]], log |-> log,
         start_time |-> IF log.ts = NoTs THEN <<>>
                        ELSE <<songplays_parse_timestamp(log.ts[1])>>]

\* the select with start_time kept among the columns
select_songplay_start_time(r) ==
    [user_id |-> r.log.userId, level |-> r.log.level, song_id |-> r.song.song_id,
     artist_id |-> r.song.artist_id, sessionId |-> r.log.sessionId,
     location |-> r.log.location, userAgent |-> r.log.userAgent,
     start_time |-> r.start_time]

select_songplay(r) ==
    [user_id |-> r.log.userId, level |-> r.log.level, song_id |-> r.song.song_id,
     artist_id |-> r.song.artist_id, sessionId |-> r.log.sessionId,
     location |-> r.log.location, userAgent |-> r.log.userAgent]

\* where(df_log_data.page == 'NextSong')
where_page(r) == SqlEq(r.log.page, "NextSong")

songplays_table ==
    LET kept == {p \in joined : where_page(with_start_time(p))}
        row(p) == select_songplay(with_start_time(p))
    IN  [x \in {row(p) : p \in kept} |-> Cardinality({p \in kept : row(p) = x})]

(***************************************************************************)
(* The sink and the parquet writer.                                        *)
(***************************************************************************)
\* dst_s3_path of main(); the methods append the file name to it as it is
dst == "s3a://spark-data-lake-etl"

songs_path == dst \o "songs_table.parquet"
artists_path == dst \o "artists_table.parquet"
users_path == dst \o "users_table.parquet"
time_path == dst \o "time_table.parquet"
songplays_path == dst \o "songplays.parquet"

Paths == {songs_path, artists_path, users_path, time_path, songplays_path}

Absent == [state |-> "absent", columns |-> <<>>, partitionBy |-> <<>>, rows |-> <<>>]

Table(columns, partitionBy, rows) ==
    [state |-> "complete", columns |-> columns, partitionBy |-> partitionBy,
     rows |-> rows]

songs_columns == <<"song_id", "title", "artist_id", "year", "duration">>
songs_partitionBy == <<"year", "artist_id">>
artists_columns == <<"artist_id", "name", "location", "latitude", "longitude">>
users_columns == <<"user_id", "first_name", "last_name", "gender", "level", "ts">>
time_columns == <<"start_time", "week", "hour", "day", "month", "year">>
songplays_columns ==
    <<"user_id", "level", "song_id", "artist_id", "sessionId", "location",
      "userAgent">>

\* mode="append": the new rows are added to what the path holds
mode_append(old, new) ==
    IF old.state # "complete" THEN new
    ELSE [new EXCEPT !.rows = IF new.columns = users_columns
                               THEN old.rows \o new.rows
                               ELSE old.rows (+) new.rows]

\* mode="overwrite": what the path held is replaced by the new table
mode_overwrite(old, new) == new

\* the exception is caught and the run goes on with the next table
swallow(e) ==
    /\ pc' = CASE pc = "songs_table" -> "artists_table"
               [] pc = "artists_table" -> "users_table"
               [] pc = "users_table" -> "time_table"
               [] pc = "time_table" -> "songplays_table"
               [] OTHER -> "done"
    /\ error' = error

\* the exception leaves the method and main(): nothing catches it
raise(e) == pc' = "failed" /\ error' = e

\* DataFrameWriter.parquet(path, mode="overwrite") that completes
write_ok(path, table, next) ==
    /\ sink' = [sink EXCEPT ![path] = mode_overwrite(sink[path], table)]
    /\ calls' = Append(calls, [path |-> path, outcome |-> "ok", table |-> table])
    /\ pc' = next
    /\ UNCHANGED error

\* the write job fails with exception e: the path keeps what it held, or the
\* overwrite has already removed it
write_fails(path, e) ==
    /\ \E left \in {sink[path], Absent} : sink' = [sink EXCEPT ![path] = left]
    /\ calls' = Append(calls, [path |-> path, outcome |-> e, table |-> Absent])
    /\ raise(e)

(***************************************************************************)
(* The steps of main(): one per parquet write, in the order of the code.   *)
(***************************************************************************)
write_songs_table ==
    /\ pc = "songs_table"
    /\ \/ \E rows \in songs_table :
            write_ok(songs_path, Table(songs_columns, songs_partitionBy, rows),
                     "artists_table")
       \/ write_fails(songs_path, "SinkWriteFailure")
    /\ UNCHANGED <<df_song_data, df_log_data, tz, run, prev>>

write_artists_table ==
    /\ pc = "artists_table"
    /\ \/ write_ok(artists_path, Table(artists_columns, <<>>, artists_table),
                   "users_table")
       \/ write_fails(artists_path, "SinkWriteFailure")
    /\ UNCHANGED <<df_song_data, df_log_data, tz, run, prev>>

write_users_table ==
    /\ pc = "users_table"
    /\ \/ \E rows \in users_table :
            write_ok(users_path, Table(users_columns, <<>>, rows), "time_table")
       \/ write_fails(users_path, "SinkWriteFailure")
    /\ UNCHANGED <<df_song_data, df_log_data, tz, run, prev>>

write_time_table ==
    /\ pc = "time_table"
    /\ \/ /\ ~time_table_raises
          /\ write_ok(time_path, Table(time_columns, <<>>, time_table),
                      "songplays_table")
       \/ /\ time_table_raises
          /\ write_fails(time_path, "PythonException")
       \/ write_fails(time_path, "SinkWriteFailure")
    /\ UNCHANGED <<df_song_data, df_log_data, tz, run, prev>>

write_songplays_table ==
    /\ pc = "songplays_table"
    /\ \/ write_ok(songplays_path, Table(songplays_columns, <<>>, songplays_table),
                   "done")
       \/ write_fails(songplays_path, "SinkWriteFailure")
    /\ UNCHANGED <<df_song_data, df_log_data, tz, run, prev>>

\* main() is invoked again on the same inputs, after it returned or raised
main_again ==
    /\ pc \in {"done", "failed"}
    /\ run < MaxRuns
    /\ run' = run + 1
    /\ pc' = "songs_table"
    /\ error' = "none"
    /\ calls' = <<>>
    /\ prev' = sink
    /\ UNCHANGED <<df_song_data, df_log_data, tz, sink>>

InitRun ==
    /\ pc = "songs_table"
    /\ run = 1
    /\ error = "none"
    /\ sink = [p \in Paths |-> Absent]
    /\ calls = <<>>
    /\ prev = [p \in Paths |-> Absent]

Init ==
    /\ \/ /\ df_song_data \in SeqUpTo(CatalogRows, MaxCatalog)
          /\ df_log_data = BaseLog
          /\ tz = 0
       \/ /\ df_song_data = BaseCatalog
          /\ df_log_data \in SeqUpTo(UserRows, MaxActivity)
          /\ tz = 0
       \/ /\ df_song_data = BaseCatalog
          /\ df_log_data \in SeqUpTo(TimeRows, MaxActivity)
          /\ tz \in TzOffsets
       \/ /\ df_song_data \in SeqUpTo(JoinCatalogRows, MaxCatalog)
          /\ df_log_data \in SeqUpTo(JoinLogRows, MaxActivity)
          /\ tz = 0
    /\ InitRun

Next ==
    \/ write_songs_table
    \/ write_artists_table
    \/ write_users_table
    \/ write_time_table
    \/ write_songplays_table

\* one invocation of main() on every input
Spec == Init /\ [][Next]_vars

InitRerun ==
    /\ df_song_data \in SeqUpTo(RerunCatalogRows, MaxCatalog)
    /\ df_log_data \in SeqUpTo(RerunLogRows, MaxActivity)
    /\ tz = 0
    /\ InitRun

NextRerun == Next \/ main_again

\* up to MaxRuns invocations of main() on the same input
SpecRerun == InitRerun /\ [][NextRerun]_vars

(***************************************************************************)
(* Properties.                                                             *)
(***************************************************************************)
Written(path) == sink[path].state = "complete"

\* the log rows with page "NextSong" whose artist equals some artist_name
QualifyingLogRows ==
    {i \in DOMAIN df_log_data :
        /\ df_log_data[i].page = "NextSong"
        /\ df_log_data[i].artist # NULL
        /\ \E j \in DOMAIN df_song_data :
              df_song_data[j].artist_name = df_log_data[i].artist}

\* the pairs of a song row and a log row with page "NextSong" and the same,
\* non-null artist name
QualifyingPairs ==
    {p \in (DOMAIN df_song_data) \X (DOMAIN df_log_data) :
        /\ df_log_data[p[2]].page = "NextSong"
        /\ df_log_data[p[2]].artist # NULL
        /\ df_song_data[p[1]].artist_name = df_log_data[p[2]].artist}

\* row is what the pair p of a song row and a log row gives
SongplayOf(row, p) ==
    LET song == df_song_data[p[1]]
        log == df_log_data[p[2]]
    IN  /\ row.user_id = log.userId
        /\ row.level = log.level
        /\ row.song_id = song.song_id
        /\ row.artist_id = song.artist_id
        /\ row.sessionId = log.sessionId
        /\ row.location = log.location
        /\ row.userAgent = log.userAgent

\* C1: the songplays table has as many rows as there are log rows with page
\* "NextSong" whose artist equals a catalog artist_name, also when several
\* catalog rows carry that artist_name.
C1_OneRowPerQualifyingLogRow ==
    Written(songplays_path) =>
        BagCardinality(sink[songplays_path].rows) = Cardinality(QualifyingLogRows)

\* C2: every row of the songplays table comes from a pair of a log row with
\* page "NextSong" and a song row whose artist_name is exactly the log row's
\* non-null artist, once per such pair; a log row with another page, a null
\* artist or an artist equal to no artist_name gives no row.
C2_RowsFromQualifyingPairs ==
    Written(songplays_path) =>
        LET rows == sink[songplays_path].rows
        IN  /\ \A row \in BagToSet(rows) :
                  CopiesIn(row, rows) =
                      Cardinality({p \in QualifyingPairs : SongplayOf(row, p)})
            /\ BagCardinality(rows) = Cardinality(QualifyingPairs)

C2_Witness ==
    /\ Written(songplays_path)
    /\ BagCardinality(sink[songplays_path].rows) = 1
    /\ Len(df_log_data) = 2
    /\ df_log_data[1].page = "Login" /\ df_log_data[1].artist = "X"
    /\ df_log_data[2].page = "NextSong" /\ df_log_data[2].artist = "X"

\* C3: the songs table has no two rows with the same song_id, has a row for
\* every song_id of the catalog, and every row is the projection of a catalog
\* row.
C3_SongsUniqueBySongId ==
    Written(songs_path) =>
        LET rows == sink[songs_path].rows
        IN  /\ \A row \in BagToSet(rows) : CopiesIn(row, rows) = 1
            /\ \A a \in BagToSet(rows), b \in BagToSet(rows) :
                  a.song_id = b.song_id => a = b
            /\ \A i \in DOMAIN df_song_data :
                  \E row \in BagToSet(rows) : row.song_id = df_song_data[i].song_id
            /\ \A row \in BagToSet(rows) :
                  \E i \in DOMAIN df_song_data :
                      /\ row.song_id = df_song_data[i].song_id
                      /\ row.title = df_song_data[i].title
                      /\ row.artist_id = df_song_data[i].artist_id
                      /\ row.year = df_song_data[i].year
                      /\ row.duration = df_song_data[i].duration
                      /\ DOMAIN row = {"song_id", "title", "artist_id", "year",
                                       "duration"}

C3_Witness ==
    /\ Written(songs_path)
    /\ Len(df_song_data) = 2
    /\ df_song_data[1].song_id = df_song_data[2].song_id
    /\ df_song_data[1].title # df_song_data[2].title
    /\ BagCardinality(sink[songs_path].rows) = 1

\* row is the five-column artist projection of the catalog row r
ArtistOf(row, r) ==
    /\ row.artist_id = r.artist_id
    /\ row.name = r.artist_name
    /\ row.location = r.artist_location
    /\ row.latitude = r.artist_latitude
    /\ row.longitude = r.artist_longitude
    /\ DOMAIN row = {"artist_id", "name", "location", "latitude", "longitude"}

\* C4: the artists table is the set of the distinct five-column projections
\* of the catalog rows: no row twice, every projection present (so two rows
\* with one artist_id and different names are both there), nothing else.
C4_ArtistsDistinctRows ==
    Written(artists_path) =>
        LET rows == sink[artists_path].rows
        IN  /\ \A row \in BagToSet(rows) : CopiesIn(row, rows) = 1
            /\ \A i \in DOMAIN df_song_data :
                  \E row \in BagToSet(rows) : ArtistOf(row, df_song_data[i])
            /\ \A row \in BagToSet(rows) :
                  \E i \in DOMAIN df_song_data : ArtistOf(row, df_song_data[i])

C4_Witness ==
    /\ Written(artists_path)
    /\ Len(df_song_data) = 2
    /\ df_song_data[1].artist_id = df_song_data[2].artist_id
    /\ df_song_data[1].artist_name # df_song_data[2].artist_name
    /\ BagCardinality(sink[artists_path].rows) = 2

\* row is the six-column user projection of the log row r
UserOf(row, r) ==
    /\ row.user_id = r.userId
    /\ row.first_name = r.firstName
    /\ row.last_name = r.lastName
    /\ row.gender = r.gender
    /\ row.level = r.level
    /\ row.ts = r.ts

\* C5: the users table has the rows of the log, each projected, as many times
\* as the log has them; user_id ascends (as strings, null first); of two
\* adjacent rows with one user_id the earlier has the larger or equal ts (a
\* null ts sorts as the smallest, so last).
C5_UsersAllRowsOrdered ==
    Written(users_path) =>
        LET rows == sink[users_path].rows
        IN  /\ Len(rows) = Len(df_log_data)
            /\ \A row \in Range(rows) :
                  Cardinality({k \in DOMAIN rows : rows[k] = row}) =
                      Cardinality({i \in DOMAIN df_log_data :
                                      UserOf(row, df_log_data[i])})
            /\ \A k \in 1..(Len(rows) - 1) :
                  /\ Rank(rows[k].user_id) <= Rank(rows[k + 1].user_id)
                  /\ rows[k].user_id = rows[k + 1].user_id =>
                        \/ rows[k + 1].ts = NoTs
                        \/ rows[k].ts # NoTs /\ rows[k].ts[1] >= rows[k + 1].ts[1]

C5_Witness ==
    /\ Written(users_path)
    /\ Len(df_log_data) = 2
    /\ df_log_data[1].userId = "9" /\ df_log_data[2].userId = "9"
    /\ df_log_data[1].ts = <<1000>> /\ df_log_data[2].ts = <<1500>>
    /\ sink[users_path].rows[1].ts = <<1500>>
    /\ sink[users_path].rows[2].ts = <<1000>>

TimeWriteOver ==
    /\ calls # <<>>
    /\ calls[Len(calls)].path = time_path
    /\ calls[Len(calls)].outcome # "SinkWriteFailure"

\* C6: for every log the reader accepts, also one with a null ts, the write
\* of the time table completes (unless the sink fails) with one row per log
\* row, the year of every row being the calendar year of its start_time.
C6_TimeTableCompletes ==
    TimeWriteOver =>
        /\ Written(time_path)
        /\ BagCardinality(sink[time_path].rows) = Len(df_log_data)
        /\ \A row \in BagToSet(sink[time_path].rows) :
              row.year = civil(row.start_time.sec \div 86400).year

RunOrder == <<songs_path, artists_path, users_path, time_path, songplays_path>>

\* the layout each write is to have
Layout ==
    <<[columns |-> <<"song_id", "title", "artist_id", "year", "duration">>,
       partitionBy |-> <<"year", "artist_id">>],
      [columns |-> <<"artist_id", "name", "location", "latitude", "longitude">>,
       partitionBy |-> <<>>],
      [columns |-> <<"user_id", "first_name", "last_name", "gender", "level",
                     "ts">>,
       partitionBy |-> <<>>],
      [columns |-> <<"start_time", "week", "hour", "day", "month", "year">>,
       partitionBy |-> <<>>],
      [columns |-> <<"user_id", "level", "song_id", "artist_id", "sessionId",
                     "location", "userAgent">>,
       partitionBy |-> <<>>]>>

\* the rows of a table, as a set, whichever way the table holds them
RowSet(path, rows) == IF path = users_path THEN Range(rows) ELSE BagToSet(rows)

\* the tables that this invocation and the previous one both wrote
WrittenTwice ==
    {c \in Range(calls) : c.outcome = "ok" /\ prev[c.path].state = "complete"}

\* C8 as stated: a table written by two invocations of main() on the same
\* input holds the same rows after both (the users table in the same order),
\* whatever the input.
C8_RerunSameTables ==
    \A c \in WrittenTwice : sink[c.path].rows = prev[c.path].rows

SongIdsShared ==
    \E i \in DOMAIN df_song_data, j \in DOMAIN df_song_data :
        /\ df_song_data[i].song_id = df_song_data[j].song_id
        /\ \/ df_song_data[i].title # df_song_data[j].title
           \/ df_song_data[i].artist_id # df_song_data[j].artist_id
           \/ df_song_data[i].year # df_song_data[j].year
           \/ df_song_data[i].duration # df_song_data[j].duration

UserRowsTie ==
    \E i \in DOMAIN df_log_data, j \in DOMAIN df_log_data :
        /\ df_log_data[i].userId = df_log_data[j].userId
        /\ df_log_data[i].ts = df_log_data[j].ts
        /\ \/ df_log_data[i].level # df_log_data[j].level
           \/ df_log_data[i].firstName # df_log_data[j].firstName
           \/ df_log_data[i].lastName # df_log_data[j].lastName
           \/ df_log_data[i].gender # df_log_data[j].gender

\* C8 amended: a table written by two invocations of main() on the same input
\* holds the same rows after both when it is the artists, time or songplays
\* table; the users table holds the same rows as many times, and in the same
\* order unless two log rows tie on (userId, ts) and differ in another users
\* column; the songs table holds one row for each song_id both times, and the
\* same rows unless two catalog rows share a song_id and differ in title,
\* artist_id, year or duration.
C8_RerunSameTablesAmended ==
    \A c \in WrittenTwice :
        LET new == sink[c.path].rows
            old == prev[c.path].rows
        IN  /\ c.path \in {artists_path, time_path, songplays_path} => new = old
            /\ c.path = users_path =>
                  /\ BagOfSeq(new) = BagOfSeq(old)
                  /\ ~UserRowsTie => new = old
            /\ c.path = songs_path =>
                  /\ {r.song_id : r \in BagToSet(new)} =
                         {r.song_id : r \in BagToSet(old)}
                  /\ BagCardinality(new) = BagCardinality(old)
                  /\ ~SongIdsShared => new = old

C8_Witness ==
    /\ run = 2
    /\ pc = "done"
    /\ \A p \in Paths : prev[p].state = "complete"
    /\ SongIdsShared
    /\ sink[songs_path].rows # prev[songs_path].rows
    /\ sink[artists_path].rows = prev[artists_path].rows
    /\ BagCardinality(sink[songplays_path].rows) > 0

\* C9: a write that fails with SinkWriteFailure is the last write of its
\* invocation of main(): the exception leaves main(), the write is not tried
\* again, no later table is written, and the tables written before it in the
\* run (in the order songs, artists, users, time, songplays) are in the sink
\* as they were written.
C9_SinkFailurePropagates ==
    \A k \in DOMAIN calls :
        calls[k].outcome = "SinkWriteFailure" =>
            /\ k = Len(calls)
            /\ pc = "failed"
            /\ error = "SinkWriteFailure"
            /\ \A l \in 1..(k - 1) :
                  /\ calls[l].outcome = "ok"
                  /\ calls[l].path = RunOrder[l]
                  /\ calls[l].path # calls[k].path
                  /\ sink[calls[l].path] = calls[l].table

C9_Witness ==
    /\ error = "SinkWriteFailure"
    /\ pc = "failed"
    /\ Len(calls) = 3
    /\ calls[3].path = users_path
    /\ BagCardinality(sink[songs_path].rows) = 1
    /\ BagCardinality(sink[artists_path].rows) = 1

====
